---- MODULE Spec2Model ----
(***************************************************************************)
(* Model of remove_bg.py: the image transform remove_background and one    *)
(* run of the Streamlit script body main().                                *)
(*                                                                         *)
(* An image is a record [mode, size, pix, transparency]: size = <<w, h>>,  *)
(* pix maps <<x, y>> to a tuple of 8-bit channel values (one per band of   *)
(* the mode), transparency is the colour key a decoder stores in           *)
(* info["transparency"] (<<>> when the file declares none).  A numpy array *)
(* is a record [shape, data]: shape = <<rows, cols, bands>> and data maps  *)
(* <<row, col>> to the band values.                                        *)
(***************************************************************************)
EXTENDS Integers, Sequences, FiniteSets, TLC

VARIABLES pc, uploaded_file, background_option, color_input, fault,
          oracle_reply, background_color, input_image, output_image,
          input_array, segmented, oracle_calls, shown_original,
          shown_processed, img_byte, download, error_shown

vars == <<pc, uploaded_file, background_option, color_input, fault,
          oracle_reply, background_color, input_image, output_image,
          input_array, segmented, oracle_calls, shown_original,
          shown_processed, img_byte, download, error_shown>>

(* ---------------------------- bounds ----------------------------------- *)
MaxW == 2
MaxH == 1

(* 8-bit channels of the PIL modes used ("RGBA", "RGB", "L", "LA") *)
MaxChannel == 255

(* ------------------------- Python values ------------------------------- *)
\* Python's None / a present value, for the optional background_color
None == [isNone |-> TRUE, val |-> <<>>]
Some(v) == [isNone |-> FALSE, val |-> v]

\* truth value of `if background_color:`: None is false, a tuple is true
\* exactly when it is non-empty (whatever its components are)
TruthyZeroIsFalse(o) == ~o.isNone /\ \E i \in 1..Len(o.val) : o.val[i] # 0
Truthy(o) == ~o.isNone /\ Len(o.val) > 0

\* the image variables before they are bound
NoImage == [mode |-> "none", size |-> <<0, 0>>, pix |-> <<>>, transparency |-> <<>>]
NoArray == [shape |-> <<0, 0, 0>>, data |-> <<>>]
NoBytes == [format |-> "none", width |-> 0, height |-> 0, rows |-> <<>>]
NoDownload == [data |-> NoBytes, file_name |-> "", mime |-> ""]

Points(size) == (0..(size[1] - 1)) \X (0..(size[2] - 1))

(* ----------------------- PIL: ImageColor.getrgb ------------------------ *)
\* "#rrggbb" is held as its six hexadecimal digit values
getrgb(hex) == <<16 * hex[1] + hex[2], 16 * hex[3] + hex[4], 16 * hex[5] + hex[6]>>

(* ----------------------- PIL: Image.convert('RGBA') -------------------- *)
\* one pixel of mode m as R,G,B,A; a pixel equal to the declared
\* transparency colour key becomes fully transparent
ToRGBA(m, px, key) ==
    IF m = "RGBA" THEN px
    ELSE IF m = "RGB" THEN <<px[1], px[2], px[3], IF px = key THEN 0 ELSE MaxChannel>>
    ELSE IF m = "L" THEN <<px[1], px[1], px[1], IF px = key THEN 0 ELSE MaxChannel>>
    ELSE \* "LA"
         <<px[1], px[1], px[1], px[2]>>

convert(img) ==
    [mode |-> "RGBA", size |-> img.size,
     pix |-> [p \in Points(img.size) |-> ToRGBA(img.mode, img.pix[p], img.transparency)],
     transparency |-> <<>>]

\* lines 19-20: the conversion is skipped for an image that already is RGBA
NormalizeDropAlpha(img) ==
    [mode |-> "RGBA", size |-> img.size,
     pix |-> [p \in Points(img.size) |->
                LET q == ToRGBA(img.mode, img.pix[p], img.transparency)
                IN  <<q[1], q[2], q[3], MaxChannel>>],
     transparency |-> <<>>]
Normalize(img) == IF img.mode # "RGBA" THEN convert(img) ELSE img

\* line 20 binds the converted image to the local name only; the caller's
\* image object is the one it passed
CallerImageOverwritten(img, local) == local
CallerImage(img, local) == img

(* ----------------------- numpy <-> PIL --------------------------------- *)
\* np.array(image): rows are y, columns are x
np_array(img) ==
    [shape |-> <<img.size[2], img.size[1], 4>>,
     data |-> [rc \in (0..(img.size[2] - 1)) \X (0..(img.size[1] - 1)) |->
                 img.pix[<<rc[2], rc[1]>>]]]

\* Image.fromarray(array) of an (h, w, 4) uint8 array
fromarrayTransposed(arr) ==
    [mode |-> "RGBA", size |-> <<arr.shape[1], arr.shape[2]>>,
     pix |-> [p \in Points(<<arr.shape[1], arr.shape[2]>>) |-> arr.data[<<p[1], p[2]>>]],
     transparency |-> <<>>]
fromarray(arr) ==
    [mode |-> "RGBA", size |-> <<arr.shape[2], arr.shape[1]>>,
     pix |-> [p \in Points(<<arr.shape[2], arr.shape[1]>>) |-> arr.data[<<p[2], p[1]>>]],
     transparency |-> <<>>]

(* ----------------------- PIL: Image.new / Image.paste ------------------ *)
\* Image.new('RGBA', size, color): an RGB triple is given alpha 255
Image_new(size, color) ==
    [mode |-> "RGBA", size |-> size,
     pix |-> [p \in Points(size) |->
                IF Len(color) = 3 THEN color \o <<MaxChannel>> ELSE color],
     transparency |-> <<>>]

\* rounded division by 255 on 16-bit intermediates:
\* tmp = a + 128; ((tmp >> 8) + tmp) >> 8
DIV255Shift(a) == a \div 256
DIV255(a) == LET tmp == a + 128 IN ((tmp \div 256) + tmp) \div 256

\* one band of a masked paste: mask weighs the pasted value in2
BLENDSwapped(mask, in1, in2) == DIV255(in1 * mask + in2 * (MaxChannel - mask))
BLEND(mask, in1, in2) == DIV255(in1 * (MaxChannel - mask) + in2 * mask)

\* canvas.paste(im, (0, 0), mask): the mask's alpha band blends every band
\* of the pasted image, the alpha band included, over the canvas
paste(canvas, im, mask) ==
    [canvas EXCEPT !.pix =
        [p \in Points(canvas.size) |->
            IF p \in DOMAIN im.pix
            THEN [i \in 1..4 |-> BLEND(mask.pix[p][4], canvas.pix[p][i], im.pix[p][i])]
            ELSE canvas.pix[p]]]

(* ----------------------- remove_background ----------------------------- *)
\* lines 29-33
Recolor(size, output_array, color) ==
    np_array(paste(Image_new(size, color), fromarray(output_array), fromarray(output_array)))

\* lines 28-38, given the array the oracle returned
Finish(normalized, output_array, color) ==
    fromarray(IF Truthy(color)
              THEN Recolor(normalized.size, output_array, color.val)
              ELSE output_array)

\* the value returned for an input image, a colour and the oracle's reply
remove_background(img, color, reply) == Finish(Normalize(img), reply, color)

(* ----------------------- PNG encoding (Image.save) --------------------- *)
\* output_image.save(buffered, format="PNG"): header with the dimensions,
\* then the scanlines top to bottom, each a row of pixels left to right
save_png(img) ==
    [format |-> "PNG", width |-> img.size[1], height |-> img.size[2],
     rows |-> [y \in 1..img.size[2] |->
                 [x \in 1..img.size[1] |-> img.pix[<<x - 1, y - 1>>]]]]

(* ----------------------- main: widget values --------------------------- *)
\* lines 64-68: the colour is converted only for the "Custom Color" option
BackgroundColorAlways(option, hex) == Some(getrgb(hex))
BackgroundColor(option, hex) ==
    IF option = "Custom Color" THEN Some(getrgb(hex)) ELSE None

(* ----------------------- the environment of one run -------------------- *)
\* sample uploads: the pixel at index i of a w*h image has channel values
\* that differ by position, so that a transposed or shifted grid shows
Index(size, p) == p[1] + size[1] * p[2]
SamplePixel(m, i) ==
    LET v == 40 + 60 * i
        a == (77 * (i + 1)) % 256
    IN  IF m = "RGBA" THEN <<v % 256, (v + 1) % 256, (v + 2) % 256, a>>
        ELSE IF m = "RGB" THEN <<v % 256, (v + 1) % 256, (v + 2) % 256>>
        ELSE IF m = "L" THEN <<v % 256>>
        ELSE <<v % 256, a>>

SampleImage(m, size, keyed) ==
    [mode |-> m, size |-> size,
     pix |-> [p \in Points(size) |-> SamplePixel(m, Index(size, p))],
     transparency |-> IF keyed THEN SamplePixel(m, 0) ELSE <<>>]

Modes == {"RGB", "RGBA", "L", "LA"}
Sizes == (1..MaxW) \X (1..MaxH)

\* decoded uploads: only RGB and L files can declare a colour key
SampleImages(sizes) ==
    {SampleImage(m, s, FALSE) : m \in Modes, s \in sizes}
    \cup {SampleImage(m, s, TRUE) : m \in {"RGB", "L"}, s \in sizes}

NoFile == [kind |-> "none", image |-> NoImage]
CorruptFile == [kind |-> "corrupt", image |-> NoImage]
ImageFile(img) == [kind |-> "image", image |-> img]

\* colour picker values "#FFFFFF" (its default), "#000000", "#00FF00", ...
White == <<15, 15, 15, 15, 15, 15>>
GridColors == {White, <<0, 0, 0, 0, 0, 0>>, <<0, 0, 15, 15, 0, 0>>}
PixelColors == GridColors \cup
    {<<0, 1, 7, 15, 8, 0>>, <<15, 14, 3, 3, 6, 6>>, <<9, 9, 12, 12, 0, 1>>}

\* what the oracle may return for a grid of a given size: any alpha per
\* pixel, colours of its own choosing
GridAlphas == {0, 128, MaxChannel}
FgColor(i) == <<(200 + 30 * i) % 256, (100 + 50 * i) % 256, (50 + 70 * i) % 256>>
FgColors == {<<0, 0, 0>>, <<255, 255, 255>>, <<200, 100, 50>>}

GridReplies(size) ==
    {[shape |-> <<size[2], size[1], 4>>,
      data |-> [rc \in (0..(size[2] - 1)) \X (0..(size[1] - 1)) |->
                  FgColor(rc[2] + size[1] * rc[1]) \o <<al[rc]>>]] :
        al \in [(0..(size[2] - 1)) \X (0..(size[1] - 1)) -> GridAlphas]}

PixelReplies ==
    {[shape |-> <<1, 1, 4>>, data |-> [rc \in {<<0, 0>>} |-> c \o <<a>>]] :
        c \in FgColors, a \in 0..MaxChannel}

\* which call of this run raises, if any
Faults == {"none", "segment", "composite", "encode"}

Unbound ==
    /\ pc = "start"
    /\ background_color = None
    /\ input_image = NoImage
    /\ output_image = NoImage
    /\ input_array = NoArray
    /\ segmented = NoArray
    /\ oracle_calls = 0
    /\ shown_original = FALSE
    /\ shown_processed = FALSE
    /\ img_byte = NoBytes
    /\ download = NoDownload
    /\ error_shown = FALSE

Choices(colors) ==
    \/ background_option = "Transparent" /\ color_input = White
    \/ background_option = "Custom Color" /\ color_input \in colors

\* runs over whole grids, with every fault
InitGrid ==
    /\ Unbound
    /\ Choices(GridColors)
    /\ fault \in Faults
    /\ \/ uploaded_file \in {NoFile, CorruptFile} /\ oracle_reply = NoArray
       \/ \E img \in SampleImages(Sizes) :
            /\ uploaded_file = ImageFile(img)
            /\ oracle_reply \in GridReplies(img.size)

\* runs over one pixel, with every alpha value the oracle can return
InitPixel ==
    /\ Unbound
    /\ Choices(PixelColors)
    /\ fault = "none"
    /\ uploaded_file \in {ImageFile(SampleImage(m, <<1, 1>>, FALSE)) : m \in {"RGB", "RGBA"}}
    /\ oracle_reply \in PixelReplies

Init == InitGrid \/ InitPixel

(* ----------------------- main: one run of the script ------------------- *)
\* lines 42-68: title, uploader, radio and colour picker
RenderWidgets ==
    /\ pc = "start"
    /\ background_color' = BackgroundColor(background_option, color_input)
    /\ pc' = "uploaded"
    /\ UNCHANGED <<uploaded_file, background_option, color_input, fault, oracle_reply,
                   input_image, output_image, input_array, segmented, oracle_calls,
                   shown_original, shown_processed, img_byte, download, error_shown>>

\* lines 70-72: Image.open is outside the try block
OpenImage ==
    /\ pc = "uploaded"
    /\ IF uploaded_file.kind = "none"
       THEN pc' = "sidebar" /\ UNCHANGED input_image
       ELSE IF uploaded_file.kind = "corrupt"
       THEN pc' = "uncaught" /\ UNCHANGED input_image
       ELSE pc' = "original" /\ input_image' = uploaded_file.image
    /\ UNCHANGED <<uploaded_file, background_option, color_input, fault, oracle_reply,
                   background_color, output_image, input_array, segmented, oracle_calls,
                   shown_original, shown_processed, img_byte, download, error_shown>>

\* lines 75-79
ShowOriginal ==
    /\ pc = "original"
    /\ shown_original' = TRUE
    /\ pc' = "process"
    /\ UNCHANGED <<uploaded_file, background_option, color_input, fault, oracle_reply,
                   background_color, input_image, output_image, input_array, segmented,
                   oracle_calls, img_byte, download, shown_processed, error_shown>>

\* line 84: the call of remove_background (lines 7-38) inside the try block
Process ==
    /\ pc = "process"
    /\ input_array' = np_array(Normalize(input_image))
    /\ input_image' = CallerImage(input_image, Normalize(input_image))
    /\ oracle_calls' = oracle_calls + 1
    /\ IF fault = "segment"
       THEN pc' = "except" /\ UNCHANGED <<segmented, output_image>>
       ELSE /\ segmented' = oracle_reply
            /\ IF fault = "composite" /\ Truthy(background_color)
               THEN pc' = "except" /\ UNCHANGED output_image
               ELSE /\ output_image' = remove_background(input_image, background_color, oracle_reply)
                    /\ pc' = "processed"
    /\ UNCHANGED <<uploaded_file, background_option, color_input, fault, oracle_reply,
                   background_color, shown_original, shown_processed, img_byte,
                   download, error_shown>>

\* lines 87-89
ShowProcessed ==
    /\ pc = "processed"
    /\ shown_processed' = TRUE
    /\ pc' = "encode"
    /\ UNCHANGED <<uploaded_file, background_option, color_input, fault, oracle_reply,
                   background_color, input_image, output_image, input_array, segmented,
                   oracle_calls, shown_original, img_byte, download, error_shown>>

\* lines 92-94
Encode ==
    /\ pc = "encode"
    /\ IF fault = "encode"
       THEN pc' = "except" /\ UNCHANGED img_byte
       ELSE pc' = "download" /\ img_byte' = save_png(output_image)
    /\ UNCHANGED <<uploaded_file, background_option, color_input, fault, oracle_reply,
                   background_color, input_image, output_image, input_array, segmented,
                   oracle_calls, shown_original, shown_processed, download, error_shown>>

\* lines 96-102
OfferDownload ==
    /\ pc = "download"
    /\ download' = [data |-> img_byte, file_name |-> "processed_image.png",
                    mime |-> "image/png"]
    /\ pc' = "sidebar"
    /\ UNCHANGED <<uploaded_file, background_option, color_input, fault, oracle_reply,
                   background_color, input_image, output_image, input_array, segmented,
                   oracle_calls, shown_original, shown_processed, img_byte, error_shown>>

\* lines 104-105
ReportError ==
    /\ pc = "except"
    /\ error_shown' = TRUE
    /\ pc' = "sidebar"
    /\ UNCHANGED <<uploaded_file, background_option, color_input, fault, oracle_reply,
                   background_color, input_image, output_image, input_array, segmented,
                   oracle_calls, shown_original, shown_processed, img_byte, download>>

\* lines 107-114
Sidebar ==
    /\ pc = "sidebar"
    /\ pc' = "done"
    /\ UNCHANGED <<uploaded_file, background_option, color_input, fault, oracle_reply,
                   background_color, input_image, output_image, input_array, segmented,
                   oracle_calls, shown_original, shown_processed, img_byte, download,
                   error_shown>>

Next ==
    \/ RenderWidgets
    \/ OpenImage
    \/ ShowOriginal
    \/ Process
    \/ ShowProcessed
    \/ Encode
    \/ OfferDownload
    \/ ReportError
    \/ Sidebar

Spec == Init /\ [][Next]_vars

TypeOK ==
    /\ pc \in {"start", "uploaded", "original", "process", "processed", "encode",
               "download", "except", "sidebar", "done", "uncaught"}
    /\ oracle_calls \in 0..1

(* ----------------------- properties ------------------------------------ *)
\* remove_background has returned in this run
Returned == output_image # NoImage
\* the oracle's pixel at image position p
Seg(p) == segmented.data[<<p[2], p[1]>>]
ColorGiven == ~background_color.isNone
Abs(n) == IF n < 0 THEN -n ELSE n

\* C1: every failure while handling the upload is caught and shown as an
\* error message; no exception leaves main, and a corrupted upload ends
\* with the error reported.
C1_AllFailuresCaught ==
    /\ pc # "uncaught"
    /\ (pc = "done" /\ uploaded_file.kind = "corrupt") => error_shown

\* C2: with a background colour, every pixel of the returned image has
\* alpha 255, whatever alpha the oracle returned there.
C2_OutputFullyOpaque ==
    (Returned /\ ColorGiven) =>
        \A p \in Points(output_image.size) : output_image.pix[p][4] = MaxChannel

\* C3: with a colour C provided (black included), every pixel the oracle made
\* fully transparent is exactly C at alpha 255 in the returned image.
C3_TransparentBecomesColor ==
    (Returned /\ ColorGiven) =>
        \A p \in Points(input_image.size) :
            Seg(p)[4] = 0 => output_image.pix[p] = background_color.val \o <<MaxChannel>>

C3_Witness ==
    /\ pc = "done"
    /\ Returned
    /\ background_color = Some(<<0, 0, 0>>)
    /\ \E p \in Points(input_image.size) :
         Seg(p)[4] = 0 /\ output_image.pix[p] = <<0, 0, 0, MaxChannel>>

\* C4: with a colour, each colour channel of each returned pixel is the
\* 8-bit value nearest to background*(1-alpha) + foreground*alpha, alpha
\* being the oracle's alpha scaled from 0..255 to 0..1.
C4_AlphaCompositing ==
    (Returned /\ ColorGiven) =>
        \A p \in Points(input_image.size) : \A c \in 1..3 :
            LET a == Seg(p)[4]
                exact255 == background_color.val[c] * (MaxChannel - a) + Seg(p)[c] * a
            IN  2 * Abs(MaxChannel * output_image.pix[p][c] - exact255) <= MaxChannel

C4_Witness ==
    /\ Returned
    /\ ColorGiven
    /\ \E p \in Points(input_image.size) : \E c \in 1..3 :
         /\ Seg(p)[4] \in 1..(MaxChannel - 1)
         /\ output_image.pix[p][c] # Seg(p)[c]
         /\ output_image.pix[p][c] # background_color.val[c]

\* C5: in both modes the returned image has the width and height of the
\* input image.
C5_SameDimensions ==
    Returned => /\ output_image.size = input_image.size
                /\ output_image.size = uploaded_file.image.size
                /\ DOMAIN output_image.pix = Points(input_image.size)

C5_Witness ==
    /\ Returned
    /\ ColorGiven
    /\ input_image.size[1] # input_image.size[2]
    /\ output_image.size = input_image.size

\* C6: with no colour (option "Transparent") the returned image is the
\* oracle's result pixel for pixel, alpha included.
C6_TransparentUnchanged ==
    (Returned /\ background_option = "Transparent") =>
        /\ output_image.size = <<segmented.shape[2], segmented.shape[1]>>
        /\ \A p \in Points(output_image.size) : output_image.pix[p] = Seg(p)

C6_Witness ==
    /\ Returned
    /\ background_option = "Transparent"
    /\ \E p \in Points(output_image.size) :
         Seg(p)[4] = 0 /\ output_image.pix[p][4] = 0

\* C7: the call of remove_background leaves the caller's image as it was
\* (mode, size, pixels), calls the oracle once and changes nothing else
\* that the user sees.
C7_InputNotMutated ==
    [][pc = "process" =>
          /\ input_image' = input_image
          /\ oracle_calls' = oracle_calls + 1
          /\ UNCHANGED <<uploaded_file, shown_original, shown_processed, img_byte,
                         download, error_shown>>]_vars

C7_Witness ==
    /\ Returned
    /\ oracle_calls = 1
    /\ input_image.mode = "RGB"
    /\ input_image = uploaded_file.image
    /\ input_array.shape[3] = 4

\* the grid handed to the oracle has four channels and the input's size
FourChannels ==
    /\ input_array.shape = <<input_image.size[2], input_image.size[1], 4>>
    /\ \A p \in Points(input_image.size) : Len(input_array.data[<<p[2], p[1]>>]) = 4
AlphaFree == input_image.mode \in {"RGB", "L"}
OpaqueGrid ==
    \A p \in Points(input_image.size) : input_array.data[<<p[2], p[1]>>][4] = MaxChannel
PassedUnchanged ==
    \A p \in Points(input_image.size) : input_array.data[<<p[2], p[1]>>] = input_image.pix[p]

C9_NoPartialOutput ==
    /\ (pc = "except" \/ error_shown) => (~shown_processed /\ download = NoDownload)
    /\ oracle_calls <= 1
    /\ download # NoDownload =>
          /\ download = [data |-> save_png(output_image),
                         file_name |-> "processed_image.png", mime |-> "image/png"]
          /\ Returned
          /\ fault # "encode"
          /\ uploaded_file.kind = "image"

\* C10: where the oracle's alpha is 255, the image returned with a colour
\* has the pixel (RGB and alpha 255) that the image returned with no colour
\* has there.
C10_ForegroundSameInBothModes ==
    (Returned /\ ColorGiven) =>
        \A p \in Points(input_image.size) :
            Seg(p)[4] = MaxChannel =>
                /\ output_image.pix[p] = remove_background(input_image, None, oracle_reply).pix[p]
                /\ output_image.pix[p][4] = MaxChannel

C10_Witness ==
    /\ Returned
    /\ ColorGiven
    /\ \E p \in Points(input_image.size) :
         /\ Seg(p)[4] = MaxChannel
         /\ Seg(p)[1] \notin {0, background_color.val[1]}
         /\ output_image.pix[p] = Seg(p)

====
